---- MODULE Spec2Model ----
(***************************************************************************)
(* Model of 3.ComputeFrequencyCutsPerForestTypeMatrix.py: the overlay of   *)
(* the forest inventory layer with the forest intervention layer, the      *)
(* buffered write of the intersection fragments to the GeoPackage          *)
(* INTERV_FORES_PROV_CLIPPED.gpkg, and the derivation of AREACUT and       *)
(* CUTTYPE on the persisted dataset.  The script is a straight-line        *)
(* program; pc is its position.  The GeoPackage survives from one run of   *)
(* the script to the next, everything else is rebuilt by each run.         *)
(*                                                                         *)
(* Areas are counted in quanta of 1/UnitArea square unit of the CRS, so    *)
(* that areas below the 1-unit threshold of the script are representable.  *)
(***************************************************************************)
EXTENDS Integers, Sequences, FiniteSets, TLC

\* ------------------------------------------------------------------ bounds
\* Number of features of the inventory layer PEE_ORI_PROV.
MaxInv == 2
\* Number of executions of the script in one behaviour.
MaxRuns == 2
\* Number of area quanta in one square unit of the CRS.
UnitArea == 2
\* The script sets BUFFER_SIZE = 5000; the model scales it down so that the
\* cap is reached by the fragments of MaxInv inventory features.
BUFFER_SIZE == 2

\* ------------------------------------------------------------ python values
\* A cell of a table is None, NaN or a string.
None == [k |-> "None"]
NaN == [k |-> "NaN"]
S(x) == [k |-> "str", v |-> x]

\* pd.notna / pd.isna
notna(x) == x.k = "str"
isna(x) == ~notna(x)

\* The expression  str(x) if pd.notna(x) else None  of feature_out.
StrOrNone(x) == IF notna(x) THEN S(x.v) ELSE None

\* ---------------------------------------------------------------- geometry
\* A geometry returned by the geometry engine: its type and the areas of
\* its polygonal members (a GeometryCollection also holds lines or points,
\* which have no area).
Geom(t, ps) == [type |-> t, polys |-> ps]
EMPTY == Geom("Empty", <<>>)
LINE == Geom("LineString", <<>>)
Polygon(a) == Geom("Polygon", <<a>>)
MultiPolygon(ps) == Geom("MultiPolygon", ps)
GeometryCollection(ps) == Geom("GeometryCollection", ps)

RECURSIVE SumSeq(_)
SumSeq(s) == IF s = <<>> THEN 0 ELSE Head(s) + SumSeq(Tail(s))

is_empty(g) == g.type = "Empty"
geom_area(g) == SumSeq(g.polys)

\* The area threshold of the two filters: 1 square unit.
MIN_AREA == 1 * UnitArea

\* Line 157: the filter on the whole intersection.
skip_intersection(g) == is_empty(g) \/ geom_area(g) < MIN_AREA

\* Line 166: the filter on one polygon of the intersection.
skip_polygon_never(poly) == FALSE
skip_polygon(poly) == poly.area < MIN_AREA

\* Line 190: the test that triggers the write of the buffer.
buffer_full_gt(b) == Len(b) > BUFFER_SIZE
buffer_full(b) == Len(b) >= BUFFER_SIZE

extract_polygons_first(g) ==
    IF g.type \in {"MultiPolygon", "Polygon"} THEN <<[part |-> 1, area |-> g.polys[1]]>>
    ELSE <<>>
extract_polygons(g) ==
    IF g.type = "MultiPolygon" THEN [k \in 1..Len(g.polys) |-> [part |-> k, area |-> g.polys[k]]]
    ELSE IF g.type = "Polygon" THEN <<[part |-> 1, area |-> g.polys[1]]>>
    ELSE <<>>

\* ----------------------------------------------------------- lookup tables
\* ShadeToleranceSpeciesQuebec.json: species prefix -> entry.  An entry
\* without the key tolerance_ombre is modelled by has = FALSE.
\* "Tolerant_fr" and "Intolerant_fr" stand for the two accented labels that
\* line 65 compares with; "Intermediaire_fr" is a label it does not know.
shade_tolerance_keys == {<<"E", "R">>, <<"P", "E">>, <<"B", "O">>, <<"S", "A">>}
shade_tolerance(code) ==
    CASE code = <<"E", "R">> -> [has |-> TRUE, tolerance_ombre |-> "Tolerant_fr"]
      [] code = <<"P", "E">> -> [has |-> TRUE, tolerance_ombre |-> "Intolerant_fr"]
      [] code = <<"B", "O">> -> [has |-> TRUE, tolerance_ombre |-> "Intermediaire_fr"]
      [] OTHER -> [has |-> FALSE, tolerance_ombre |-> ""]

\* CutTypeCategories.json: raw code -> entry.
cut_categories_keys == {"CT", "CPR", "EPC", "P"}
cut_categories(code) ==
    CASE code = "CT" -> [has |-> TRUE, english_category |-> "Commercial thinning"]
      [] code = "CPR" -> [has |-> TRUE, english_category |-> "Clearcut"]
      [] code = "EPC" -> [has |-> TRUE, english_category |-> "Others"]
      [] OTHER -> [has |-> FALSE, english_category |-> ""]

age_classes_short == {"10", "20", "30", "40", "50", "60", "70", "80", "90", "100",
                      "110", "120", "130"}
age_classes == {"10", "20", "30", "40", "50", "60", "70", "80", "90", "100",
                "110", "120", "130", "140"}

reclassify_cl_age(cl_age) ==
    IF notna(cl_age) /\ cl_age.v \in age_classes THEN S("Even")
    ELSE IF notna(cl_age) THEN S("Uneven")
    ELSE None

Prefix2_whole(s) == s
Prefix2(s) == SubSeq(s, 1, IF Len(s) < 2 THEN Len(s) ELSE 2)

classify_shade_tolerance(gr_ess) ==
    IF isna(gr_ess) THEN None
    ELSE LET species_code == Prefix2(gr_ess.v) IN
         IF species_code \in shade_tolerance_keys
         THEN LET e == shade_tolerance(species_code)
                  tolerance == IF e.has THEN e.tolerance_ombre ELSE "Unknown"
              IN  IF tolerance = "Tolerant_fr" THEN S("Tol")
                  ELSE IF tolerance = "Intolerant_fr" THEN S("Intol")
                  ELSE S("Unknown")
         ELSE S("Unknown")

reclassify_cuttype(cuttype) ==
    IF isna(cuttype) THEN None
    ELSE IF cuttype.v \in cut_categories_keys
         THEN LET e == cut_categories(cuttype.v) IN
              S(IF e.has THEN e.english_category ELSE cuttype.v)
         ELSE S(cuttype.v)

\* ------------------------------------------------------------------ inputs
\* Rows of the intervention layer INTERV_FORES_PROV (the columns read at
\* lines 32-38).
InterventionColumns == {"EXERCICE", "ORIGINE", "AN_ORIGINE", "PERTURB", "AN_PERTURB",
                        "REB_ESS1", "REB_ESS2", "REB_ESS3"}
RowA == [EXERCICE |-> S("2005"), ORIGINE |-> S("CPR"), AN_ORIGINE |-> S("2004"),
         PERTURB |-> None, AN_PERTURB |-> NaN,
         REB_ESS1 |-> S("EPN"), REB_ESS2 |-> None, REB_ESS3 |-> None]
RowB == [EXERCICE |-> S("2010"), ORIGINE |-> S("P"), AN_ORIGINE |-> S("1990"),
         PERTURB |-> S("CT"), AN_PERTURB |-> S("2009"),
         REB_ESS1 |-> S("PIG"), REB_ESS2 |-> S("EPB"), REB_ESS3 |-> NaN]
RowC == [EXERCICE |-> NaN, ORIGINE |-> None, AN_ORIGINE |-> None,
         PERTURB |-> None, AN_PERTURB |-> None,
         REB_ESS1 |-> None, REB_ESS2 |-> None, REB_ESS3 |-> None]
RowD == [EXERCICE |-> S("1998"), ORIGINE |-> S("BR"), AN_ORIGINE |-> S("1950"),
         PERTURB |-> S("EPC"), AN_PERTURB |-> S("1997"),
         REB_ESS1 |-> None, REB_ESS2 |-> None, REB_ESS3 |-> None]
RowE == [EXERCICE |-> S("2001"), ORIGINE |-> S("BR"), AN_ORIGINE |-> S("2000"),
         PERTURB |-> NaN, AN_PERTURB |-> None,
         REB_ESS1 |-> S("EPN"), REB_ESS2 |-> None, REB_ESS3 |-> None]
InterventionTables == {<<RowA, RowB>>, <<RowC, RowD>>, <<RowE, RowA>>}

\* Areas around the threshold: just below, exactly on, above.
Below == UnitArea - 1
Unit == UnitArea
Above == UnitArea + 1
Double == 2 * UnitArea
Large == 2 * UnitArea + 1

\* Features of the inventory layer.  inter[j] is what the geometry engine
\* returns for intersection(pee_geom, interv_geoms[j]); has_geometry is
\* FALSE for a feature whose geometry is null.
Feature(g, age, ess, ter, i) ==
    [has_geometry |-> g, CL_AGE |-> age, GR_ESS |-> ess, CO_TER |-> ter, inter |-> i]
InventoryFeatures ==
    { Feature(TRUE, S("60"), S(<<"E", "R", "B", "B">>), None, <<Polygon(Above), EMPTY>>),
      Feature(TRUE, S("VIN"), S(<<"P", "E", "P", "E">>), S("1A"),
              <<MultiPolygon(<<Unit, Below, Above>>), Polygon(Below)>>),
      Feature(TRUE, None, None, S("DH"), <<GeometryCollection(<<Unit>>), LINE>>),
      Feature(TRUE, S("50"), S(<<"B", "O", "J">>), None, <<EMPTY, EMPTY>>),
      Feature(TRUE, S("JIN"), S(<<"S", "A", "B">>), S("2A"),
              <<Polygon(Unit), MultiPolygon(<<Below, Below>>)>>),
      Feature(TRUE, S("120"), S(<<"Z">>), S("1A"), <<Polygon(Unit), Polygon(Above)>>),
      Feature(TRUE, S("70"), S(<<"E", "R", "S">>), S("2A"), <<Polygon(Double), Polygon(Large)>>),
      Feature(TRUE, S("90"), S(<<"P", "E", "B">>), S("1A"), <<EMPTY, Polygon(Above)>>),
      Feature(FALSE, S("30"), S(<<"E", "R">>), None, <<EMPTY, EMPTY>>) }

\* ------------------------------------------------------------------- state
VARIABLES
    inventory,        \* the features of PEE_ORI_PROV, in stream order
    interventions,    \* the rows of INTERV_FORES_PROV
    gpkg,             \* the file INTERV_FORES_PROV_CLIPPED.gpkg
    pc,               \* position of the running script
    interv_fores_gdf, \* "undefined", "loaded" or "deleted"
    interv_tree,      \* "undefined" or "built"
    interv_clipped,   \* "undefined", None or a table
    pos,              \* number of inventory features read from src
    potential_idx,    \* candidates of the current feature not yet visited
    interv_idx,       \* the candidate being processed
    polygons,         \* polygons of the current intersection not yet visited
    buffer,
    count,
    matrix_csv,       \* the file forest_cut_matrix.csv
    prob_csv,         \* the file forest_cut_matrix_probabilities.csv
    accepted,         \* history: every feature_out appended to buffer, in order
    history,          \* history: one record per run
    defect            \* what is wrong with the files the script opens first

vars == <<inventory, interventions, gpkg, pc, interv_fores_gdf, interv_tree,
          interv_clipped, pos, potential_idx, interv_idx, polygons, buffer,
          count, matrix_csv, prob_csv, accepted, history, defect>>

inputs == <<inventory, interventions, matrix_csv, prob_csv, defect>>
NoFile == [k |-> "absent"]
overlayVars == <<pos, potential_idx, interv_idx, polygons, buffer, count, accepted>>

Undefined == [k |-> "undefined"]
DF(rows) == [k |-> "df", rows |-> rows]
File(st, recs) == [state |-> st, records |-> recs]

\* history holds one record per run: the file the run found when it started,
\* how the run ended ("running" until then) and the position it ended at.
Run(file) == [start |-> file, how |-> "running", at |-> ""]

\* Positions at which dst is open for writing.
WriterOpen == {"next_feature", "next_candidate", "next_poly", "check_flush", "final_flush"}
Ended == {"done", "crashed", "killed"}

\* The state of a process that has just been started (nothing is bound).
Fresh ==
    /\ pc = "load_json"
    /\ interv_fores_gdf = "undefined"
    /\ interv_tree = "undefined"
    /\ interv_clipped = Undefined
    /\ pos = 0
    /\ potential_idx = {}
    /\ interv_idx = 0
    /\ polygons = <<>>
    /\ buffer = <<>>
    /\ count = 0
    /\ accepted = <<>>

Init ==
    /\ inventory \in [1..MaxInv -> InventoryFeatures]
    /\ interventions \in InterventionTables
    /\ gpkg = File("absent", <<>>)
    /\ matrix_csv = NoFile
    /\ prob_csv = NoFile
    /\ history = <<Run(gpkg)>>
    /\ defect = "none"
    /\ Fresh

\* ----------------------------------------------------------------- helpers
\* interv_tree.query(pee_geom, predicate='intersects'): the interventions
\* whose geometry intersects the geometry of the feature.
query_first(f) == {j \in {1} : ~is_empty(f.inter[j])}
query(f) == {j \in 1..Len(interventions) : ~is_empty(f.inter[j])}

\* Lines 170-185: the record feature_out built for polygon poly of the
\* intersection of feature i with intervention j, whose row is interv_row.  The geometry is identified by the
\* pair it comes from and its rank in the intersection.
feature_record(f, i, j, poly, interv_row) ==
    [geometry |-> [inv |-> i, interv |-> j, part |-> poly.part, area |-> poly.area],
     EXERCICE |-> StrOrNone(interv_row.EXERCICE),
     ORIGINE |-> StrOrNone(interv_row.ORIGINE),
     AN_ORIGINE |-> StrOrNone(interv_row.AN_ORIGINE),
     PERTURB |-> StrOrNone(interv_row.PERTURB),
     AN_PERTURB |-> StrOrNone(interv_row.AN_PERTURB),
     REB_ESS1 |-> StrOrNone(interv_row.REB_ESS1),
     REB_ESS2 |-> StrOrNone(interv_row.REB_ESS2),
     REB_ESS3 |-> StrOrNone(interv_row.REB_ESS3),
     CL_AGE |-> reclassify_cl_age(f.CL_AGE),
     GR_ESS |-> classify_shade_tolerance(f.GR_ESS),
     CO_TER |-> StrOrNone(f.CO_TER)]

\* Line 160: interv_row is the row of the candidate.
feature_out_first_row(f, i, j, poly) == feature_record(f, i, j, poly, interventions[1])
feature_out(f, i, j, poly) == feature_record(f, i, j, poly, interventions[j])

\* dst.writerecords(buffer): the records are appended to the file.
writerecords(file, recs) == File(file.state, file.records \o recs)

\* Assignment of a column of a table: df[col] = values.
SetColumn(row, col, val) ==
    [c \in DOMAIN row \cup {col} |-> IF c = col THEN val ELSE row[c]]

EndRun(how, at) ==
    history' = [history EXCEPT ![Len(history)] = [@ EXCEPT !.how = how, !.at = at]]

\* ----------------------------------------------------------------- actions
\* Lines 21-27: the two lookup tables are loaded; open() raises on a file
\* that does not exist, which ends the script.
LoadJson_lenient ==
    /\ pc = "load_json"
    /\ pc' = "load_interv"
    /\ UNCHANGED <<inputs, gpkg, interv_fores_gdf, interv_tree, interv_clipped,
                   overlayVars, history>>
LoadJson ==
    /\ pc = "load_json"
    /\ IF defect = "lookup_missing"
       THEN /\ pc' = "crashed"
            /\ EndRun("crashed", "load_json")
       ELSE /\ pc' = "load_interv"
            /\ UNCHANGED history
    /\ UNCHANGED <<inputs, gpkg, interv_fores_gdf, interv_tree, interv_clipped,
                   overlayVars>>

\* Lines 29-39: the intervention layer is read only when the GeoPackage
\* does not exist; read_dataframe raises on a layer that cannot be read.
LoadInterventions ==
    /\ pc = "load_interv"
    /\ IF gpkg.state = "absent"
       THEN IF defect = "layer_unreadable"
            THEN /\ pc' = "crashed"
                 /\ EndRun("crashed", "load_interv")
                 /\ UNCHANGED interv_fores_gdf
            ELSE /\ interv_fores_gdf' = "loaded"
                 /\ pc' = "build_index"
                 /\ UNCHANGED history
       ELSE /\ pc' = "build_index"
            /\ UNCHANGED <<interv_fores_gdf, history>>
    /\ UNCHANGED <<inputs, gpkg, interv_tree, interv_clipped, overlayVars>>

\* Lines 41-47: the index is built from interv_fores_gdf.geometry; reading a
\* name that is not bound raises NameError, which ends the script.
BuildIndex ==
    /\ pc = "build_index"
    /\ IF interv_fores_gdf = "loaded"
       THEN /\ interv_tree' = "built"
            /\ pc' = "check_clipped"
            /\ UNCHANGED history
       ELSE /\ pc' = "crashed"
            /\ EndRun("crashed", "build_index")
            /\ UNCHANGED interv_tree
    /\ UNCHANGED <<inputs, gpkg, interv_fores_gdf, interv_clipped, overlayVars>>

\* Lines 77-102: an existing GeoPackage is read; one that cannot be read is
\* deleted.
CheckClipped ==
    /\ pc = "check_clipped"
    /\ IF gpkg.state # "absent"
       THEN IF interv_fores_gdf # "loaded"
            THEN /\ pc' = "crashed"
                 /\ EndRun("crashed", "check_clipped")
                 /\ UNCHANGED <<gpkg, interv_fores_gdf, interv_clipped>>
            ELSE /\ interv_fores_gdf' = "deleted"
                 /\ UNCHANGED history
                 /\ IF gpkg.state = "valid"
                    THEN /\ interv_clipped' = DF(gpkg.records)
                         /\ pc' = "area"
                         /\ UNCHANGED gpkg
                    ELSE /\ gpkg' = File("absent", <<>>)
                         /\ interv_clipped' = None
                         /\ pc' = "open_overlay"
       ELSE /\ interv_clipped' = None
            /\ pc' = "open_overlay"
            /\ UNCHANGED <<gpkg, interv_fores_gdf, history>>
    /\ UNCHANGED <<inputs, interv_tree, overlayVars>>

\* Lines 104-135: src is opened, dst is created, buffer and count are reset.
OpenOverlay ==
    /\ pc = "open_overlay"
    /\ gpkg' = File("valid", <<>>)
    /\ buffer' = <<>>
    /\ count' = 0
    /\ pc' = "next_feature"
    /\ UNCHANGED <<inputs, interv_fores_gdf, interv_tree, interv_clipped, pos,
                   potential_idx, interv_idx, polygons, accepted, history>>

\* Lines 137-151: the next feature is read from src and the index queried;
\* shape() raises on a feature without geometry, which closes dst and ends
\* the script.  Line 194: the loop is left when src is exhausted.
NextFeature ==
    /\ pc = "next_feature"
    /\ IF pos < Len(inventory)
       THEN LET feature == inventory[pos + 1] IN
            /\ pos' = pos + 1
            /\ IF ~feature.has_geometry
               THEN /\ pc' = "crashed"
                    /\ EndRun("crashed", "next_feature")
                    /\ UNCHANGED potential_idx
               ELSE /\ potential_idx' = query(feature)
                    /\ pc' = IF query(feature) = {} THEN "next_feature" ELSE "next_candidate"
                    /\ UNCHANGED history
       ELSE /\ pc' = "final_flush"
            /\ UNCHANGED <<pos, potential_idx, history>>
    /\ UNCHANGED <<inputs, gpkg, interv_fores_gdf, interv_tree, interv_clipped,
                   interv_idx, polygons, buffer, count, accepted>>

\* Lines 153-163: the exact intersection with the next candidate, the filter
\* on the whole intersection, and the extraction of its polygons.
NextCandidate ==
    /\ pc = "next_candidate"
    /\ IF potential_idx = {}
       THEN /\ pc' = "next_feature"
            /\ UNCHANGED <<potential_idx, interv_idx, polygons>>
       ELSE \E j \in potential_idx :
            LET intersect_geom == inventory[pos].inter[j] IN
            /\ potential_idx' = potential_idx \ {j}
            /\ interv_idx' = j
            /\ IF skip_intersection(intersect_geom)
               THEN /\ pc' = "next_candidate"
                    /\ UNCHANGED polygons
               ELSE /\ polygons' = extract_polygons(intersect_geom)
                    /\ pc' = "next_poly"
    /\ UNCHANGED <<inputs, gpkg, interv_fores_gdf, interv_tree, interv_clipped,
                   pos, buffer, count, accepted, history>>

\* Lines 165-187: the filter on one polygon, and the append to the buffer.
NextPoly ==
    /\ pc = "next_poly"
    /\ IF polygons = <<>>
       THEN /\ pc' = "next_candidate"
            /\ UNCHANGED <<polygons, buffer, count, accepted>>
       ELSE LET poly == Head(polygons) IN
            /\ polygons' = Tail(polygons)
            /\ IF skip_polygon(poly)
               THEN /\ pc' = "next_poly"
                    /\ UNCHANGED <<buffer, count, accepted>>
               ELSE LET out == feature_out(inventory[pos], pos, interv_idx, poly) IN
                    /\ buffer' = Append(buffer, out)
                    /\ accepted' = Append(accepted, out)
                    /\ count' = count + 1
                    /\ pc' = "check_flush"
    /\ UNCHANGED <<inputs, gpkg, interv_fores_gdf, interv_tree, interv_clipped,
                   pos, potential_idx, interv_idx, history>>

\* Lines 189-192: the buffer is written and emptied when it is full.
CheckFlush_keep ==
    /\ pc = "check_flush"
    /\ IF buffer_full(buffer)
       THEN /\ gpkg' = writerecords(gpkg, buffer)
            /\ UNCHANGED buffer
       ELSE UNCHANGED <<gpkg, buffer>>
    /\ pc' = "next_poly"
    /\ UNCHANGED <<inputs, interv_fores_gdf, interv_tree, interv_clipped, pos,
                   potential_idx, interv_idx, polygons, count, accepted, history>>
CheckFlush ==
    /\ pc = "check_flush"
    /\ IF buffer_full(buffer)
       THEN /\ gpkg' = writerecords(gpkg, buffer)
            /\ buffer' = <<>>
       ELSE UNCHANGED <<gpkg, buffer>>
    /\ pc' = "next_poly"
    /\ UNCHANGED <<inputs, interv_fores_gdf, interv_tree, interv_clipped, pos,
                   potential_idx, interv_idx, polygons, count, accepted, history>>

\* Lines 194-198: what is left in the buffer is written; dst and src are
\* closed.  The list buffer itself is left as it is.
FinalFlush_skip ==
    /\ pc = "final_flush"
    /\ pc' = "reload"
    /\ UNCHANGED <<inputs, gpkg, interv_fores_gdf, interv_tree, interv_clipped,
                   overlayVars, history>>
FinalFlush ==
    /\ pc = "final_flush"
    /\ gpkg' = IF buffer # <<>> THEN writerecords(gpkg, buffer) ELSE gpkg
    /\ pc' = "reload"
    /\ UNCHANGED <<inputs, interv_fores_gdf, interv_tree, interv_clipped,
                   overlayVars, history>>

\* Lines 200-212: the intervention table is released and the GeoPackage
\* just written is read back.
Reload ==
    /\ pc = "reload"
    /\ interv_fores_gdf' = "deleted"
    /\ interv_clipped' = DF(gpkg.records)
    /\ pc' = "area"
    /\ UNCHANGED <<inputs, gpkg, interv_tree, overlayVars, history>>

\* -------------------------------------------------------------- aggregation
forest_types == <<"Even/Tol", "Uneven/Tol", "Even/Intol", "Uneven/Intol",
                  "Unknown/Unclassified">>
rows_to_remove == {"Commercial thinning", "Others"}

classify_forest_type_not_intol(row) ==
    LET cl_age == row.CL_AGE
        gr_ess == row.GR_ESS
    IN  IF isna(cl_age) \/ gr_ess = S("Unknown") \/ isna(gr_ess) THEN "Unknown/Unclassified"
        ELSE IF cl_age = S("Even") /\ gr_ess # S("Intol") THEN "Even/Tol"
        ELSE IF cl_age = S("Uneven") /\ gr_ess = S("Tol") THEN "Uneven/Tol"
        ELSE IF cl_age = S("Even") /\ gr_ess = S("Intol") THEN "Even/Intol"
        ELSE IF cl_age = S("Uneven") /\ gr_ess = S("Intol") THEN "Uneven/Intol"
        ELSE "Unknown/Unclassified"
classify_forest_type(row) ==
    LET cl_age == row.CL_AGE
        gr_ess == row.GR_ESS
    IN  IF isna(cl_age) \/ gr_ess = S("Unknown") \/ isna(gr_ess) THEN "Unknown/Unclassified"
        ELSE IF cl_age = S("Even") /\ gr_ess = S("Tol") THEN "Even/Tol"
        ELSE IF cl_age = S("Uneven") /\ gr_ess = S("Tol") THEN "Uneven/Tol"
        ELSE IF cl_age = S("Even") /\ gr_ess = S("Intol") THEN "Even/Intol"
        ELSE IF cl_age = S("Uneven") /\ gr_ess = S("Intol") THEN "Uneven/Intol"
        ELSE "Unknown/Unclassified"

\* Line 222: the disturbance code when there is one, else the origin code.
raw_cuttype_origin_first(row) == IF notna(row.ORIGINE) THEN row.ORIGINE ELSE row.PERTURB
raw_cuttype(row) == IF notna(row.PERTURB) THEN row.PERTURB ELSE row.ORIGINE

Range(s) == {s[i] : i \in DOMAIN s}

\* Sum of AREACUT over the rows of a table that satisfy keep.
RECURSIVE SumArea(_, _, _)
SumArea(rows, cut, ft) ==
    IF rows = <<>> THEN 0
    ELSE LET r == Head(rows) IN
         (IF r.CUTTYPE = S(cut) /\ r.FOREST_TYPE = ft THEN r.AREACUT ELSE 0)
         + SumArea(Tail(rows), cut, ft)

RECURSIVE total_area(_)
total_area(rows) == IF rows = <<>> THEN 0 ELSE Head(rows).AREACUT + total_area(Tail(rows))

\* round(): n/d rounded to the nearest integer, ties to the even one.
RoundHalfEven(n, d) ==
    LET q == n \div d
        r == n % d
    IN  IF 2 * r < d THEN q
        ELSE IF 2 * r > d THEN q + 1
        ELSE q + (q % 2)

RECURSIVE SumCells(_, _, _)
SumCells(m, cuts, ft) ==
    IF cuts = {} THEN 0
    ELSE LET c == CHOOSE x \in cuts : TRUE IN m[c][ft] + SumCells(m, cuts \ {c}, ft)

\* groupby(['CUTTYPE', 'FOREST_TYPE']) leaves out the rows whose key is null;
\* the index of the matrix is the set of the remaining cut types, and
\* unstack makes one column per forest type that occurs, in sorted order.
matrix_index(rows) == {r.CUTTYPE.v : r \in {x \in Range(rows) : notna(x.CUTTYPE)}}
sorted_forest_types == <<"Even/Intol", "Even/Tol", "Uneven/Intol", "Uneven/Tol",
                         "Unknown/Unclassified">>
matrix_columns(rows) ==
    LET present(ft) == \E r \in Range(rows) : notna(r.CUTTYPE) /\ r.FOREST_TYPE = ft
    IN  SelectSeq(sorted_forest_types, present)

\* A table: its columns in order, its index, and one value per row and
\* column.
Table(cols, idx, cells) == [k |-> "csv", columns |-> cols, index |-> idx, cells |-> cells]

\* Line 267: the summed area per cut type and forest type.
matrix(rows) ==
    Table(matrix_columns(rows), matrix_index(rows),
          [cut \in matrix_index(rows) |->
              [ft \in Range(matrix_columns(rows)) |-> SumArea(rows, cut, ft)]])

\* Line 268: percentages of the total area, in hundredths of a percent.
percent_of_column(m, total) ==
    Table(m.columns, m.index,
          [cut \in m.index |-> [ft \in Range(m.columns) |->
              RoundHalfEven(m.cells[cut][ft] * 100 * 100, SumCells(m.cells, m.index, ft))]])
percent_of_total(m, total) ==
    Table(m.columns, m.index,
          [cut \in m.index |-> [ft \in Range(m.columns) |->
              RoundHalfEven(m.cells[cut][ft] * 100 * 100, total)]])

\* Lines 270-274: a column of zeros is added, after the others, for each
\* forest type that has none.
ensure_forest_types_skip(m) == m
ensure_forest_types(m) ==
    LET missing(ft) == ft \notin Range(m.columns) IN
    Table(m.columns \o SelectSeq(forest_types, missing), m.index,
          [cut \in m.index |-> [ft \in Range(m.columns) \cup Range(forest_types) |->
              IF ft \in Range(m.columns) THEN m.cells[cut][ft] ELSE 0]])

\* Line 276: the columns are put in the order of forest_types.
select_forest_types(m) ==
    LET there(ft) == ft \in Range(m.columns) IN
    Table(SelectSeq(forest_types, there), m.index,
          [cut \in m.index |-> [ft \in Range(SelectSeq(forest_types, there)) |->
              m.cells[cut][ft]]])

\* Lines 265-276: matrix_pct as it is exported.
matrix_pct(rows) ==
    select_forest_types(ensure_forest_types(percent_of_total(matrix(rows), total_area(rows))))

\* A cell of the probability matrix: a number of ten-thousandths, or NaN.
Num(n) == [k |-> "num", v |-> n]
Ratio(n, d) == [k |-> "ratio", n |-> n, d |-> d]

\* Line 311: a cell divided by the sum of its column; 0/0 is NaN.
div(n, d) == IF d = 0 THEN NaN ELSE Ratio(n, d)

\* Line 314: fillna(0).
fillna_keep(x) == x
fillna(x) == IF x.k = "NaN" THEN Ratio(0, 1) ELSE x

\* Line 317: round(4).
round4(x) == IF x.k = "NaN" THEN NaN ELSE Num(RoundHalfEven(x.n * 10000, x.d))

\* Lines 297-308: the column Unknown/Unclassified and the rows of
\* rows_to_remove are dropped.
drop_rows_none(m) == m
drop_rows(m) ==
    Table(m.columns, m.index \ rows_to_remove,
          [cut \in m.index \ rows_to_remove |-> m.cells[cut]])
drop_unknown_column(m) ==
    LET kept(ft) == ft # "Unknown/Unclassified" IN
    Table(SelectSeq(m.columns, kept), m.index,
          [cut \in m.index |-> [ft \in Range(SelectSeq(m.columns, kept)) |-> m.cells[cut][ft]]])

\* Lines 293-295: the percentages are turned back into areas with the total
\* area of the fragments (in hundredths of a percent of a unit of area).
to_area(m, total) ==
    Table(m.columns, m.index,
          [cut \in m.index |-> [ft \in Range(m.columns) |-> m.cells[cut][ft] * total]])

\* The same with the rows dropped after the division instead of before it.
matrix_prob_drop_after(pct, total) ==
    LET m == drop_unknown_column(to_area(pct, total)) IN
    Table(m.columns, m.index \ rows_to_remove,
          [cut \in m.index \ rows_to_remove |-> [ft \in Range(m.columns) |->
              round4(fillna(div(m.cells[cut][ft], SumCells(m.cells, m.index, ft))))]])

\* Lines 289-317: matrix_prob from the percentages read back from
\* forest_cut_matrix.csv.
matrix_prob(pct, total) ==
    LET matrix_filtered == drop_rows(drop_unknown_column(to_area(pct, total))) IN
    Table(matrix_filtered.columns, matrix_filtered.index,
          [cut \in matrix_filtered.index |-> [ft \in Range(matrix_filtered.columns) |->
              round4(fillna(div(matrix_filtered.cells[cut][ft],
                                SumCells(matrix_filtered.cells, matrix_filtered.index, ft))))]])

\* Lines 214-217: the column AREACUT.  On a table without row, apply
\* returns an empty column of the type of the geometry column, and the sum
\* of line 217 raises on it, which ends the script.
ComputeArea ==
    /\ pc = "area"
    /\ interv_clipped' = DF([i \in DOMAIN interv_clipped.rows |->
            SetColumn(interv_clipped.rows[i], "AREACUT", interv_clipped.rows[i].geometry.area)])
    /\ IF interv_clipped.rows = <<>>
       THEN /\ pc' = "crashed"
            /\ EndRun("crashed", "area")
       ELSE /\ pc' = "cuttype"
            /\ UNCHANGED history
    /\ UNCHANGED <<inputs, gpkg, interv_fores_gdf, interv_tree, overlayVars>>

\* Lines 219-236: the column CUTTYPE and its reclassification.
CreateCuttype ==
    /\ pc = "cuttype"
    /\ interv_clipped' = DF([i \in DOMAIN interv_clipped.rows |->
            SetColumn(interv_clipped.rows[i], "CUTTYPE",
                      reclassify_cuttype(raw_cuttype(interv_clipped.rows[i])))])
    /\ pc' = "save"
    /\ UNCHANGED <<inputs, gpkg, interv_fores_gdf, interv_tree, overlayVars, history>>

\* Lines 238-240: the table, with its two new columns, replaces the file.
SaveFinal ==
    /\ pc = "save"
    /\ gpkg' = File("valid", interv_clipped.rows)
    /\ pc' = "forest_type"
    /\ UNCHANGED <<inputs, interv_fores_gdf, interv_tree, interv_clipped,
                   overlayVars, history>>

\* Lines 242-261: the column FOREST_TYPE.
ClassifyForestType ==
    /\ pc = "forest_type"
    /\ interv_clipped' = DF([i \in DOMAIN interv_clipped.rows |->
            SetColumn(interv_clipped.rows[i], "FOREST_TYPE",
                      classify_forest_type(interv_clipped.rows[i]))])
    /\ pc' = "matrix"
    /\ UNCHANGED <<inputs, gpkg, interv_fores_gdf, interv_tree, overlayVars, history>>

\* Lines 263-284: the percentage matrix is written to forest_cut_matrix.csv.
ExportMatrix ==
    /\ pc = "matrix"
    /\ matrix_csv' = matrix_pct(interv_clipped.rows)
    /\ pc' = "probabilities"
    /\ UNCHANGED <<inventory, interventions, defect, prob_csv, gpkg, interv_fores_gdf,
                   interv_tree, interv_clipped, overlayVars, history>>

\* Lines 286-326: the probability matrix is computed from the file just
\* written and exported; the script ends.
ExportProbabilities ==
    /\ pc = "probabilities"
    /\ prob_csv' = matrix_prob(matrix_csv, total_area(interv_clipped.rows))
    /\ pc' = "done"
    /\ EndRun("done", "probabilities")
    /\ UNCHANGED <<inventory, interventions, defect, matrix_csv, gpkg, interv_fores_gdf,
                   interv_tree, interv_clipped, overlayVars>>

\* ------------------------------------------------------------- environment
\* A CSV file that to_csv has opened for writing (which empties it) and
\* not finished: it holds none or a part of the lines of the table.
Truncated == [k |-> "truncated"]

\* What a termination leaves of the GeoPackage.  While dst is open (lines
\* 133-196) the file holds the records written so far, readable or not.
\* Inside fiona.open of line 133 the file is not yet there, or is there
\* without a readable layer.  Inside to_file of line 239 the layer is
\* deleted, created again and filled: the file is the old one, or cannot
\* be read, or holds none, a part or all of the rows of the table.
KilledDataset ==
    IF pc \in WriterOpen
    THEN {File(st, gpkg.records) : st \in {"valid", "corrupt"}}
    ELSE IF pc = "open_overlay"
    THEN {gpkg, File("corrupt", <<>>)}
    ELSE IF pc = "save"
    THEN {gpkg, File("corrupt", gpkg.records)}
         \cup {File("valid", SubSeq(interv_clipped.rows, 1, n)) :
                   n \in 0..Len(interv_clipped.rows)}
    ELSE {gpkg}

\* What a termination leaves of a CSV file: inside to_csv (line 283 for
\* forest_cut_matrix.csv, line 325 for the probabilities) the file is the
\* one that was there or a truncated one.
KilledCsv(file, at) == IF pc = at THEN {file, Truncated} ELSE {file}

\* The process is terminated.
Kill ==
    /\ pc \notin Ended
    /\ pc' = "killed"
    /\ EndRun("killed", pc)
    /\ gpkg' \in KilledDataset
    /\ matrix_csv' \in KilledCsv(matrix_csv, "matrix")
    /\ prob_csv' \in KilledCsv(prob_csv, "probabilities")
    /\ UNCHANGED <<inventory, interventions, defect, interv_fores_gdf, interv_tree,
                   interv_clipped, overlayVars>>

\* The script is started again on the same inputs: a new process, the same
\* files.
StartRun ==
    /\ pc \in Ended
    /\ Len(history) < MaxRuns
    /\ history' = Append(history, Run(gpkg))
    /\ pc' = "load_json"
    /\ interv_fores_gdf' = "undefined"
    /\ interv_tree' = "undefined"
    /\ interv_clipped' = Undefined
    /\ pos' = 0
    /\ potential_idx' = {}
    /\ interv_idx' = 0
    /\ polygons' = <<>>
    /\ buffer' = <<>>
    /\ count' = 0
    /\ accepted' = <<>>
    /\ UNCHANGED <<inputs, gpkg>>

Next ==
    \/ LoadJson
    \/ LoadInterventions
    \/ BuildIndex
    \/ CheckClipped
    \/ OpenOverlay
    \/ NextFeature
    \/ NextCandidate
    \/ NextPoly
    \/ CheckFlush
    \/ FinalFlush
    \/ Reload
    \/ ComputeArea
    \/ CreateCuttype
    \/ SaveFinal
    \/ ClassifyForestType
    \/ ExportMatrix
    \/ ExportProbabilities
    \/ Kill
    \/ StartRun

Spec == Init /\ [][Next]_vars

\* The steps of the script; it takes one whenever it can, unless the
\* process is terminated.
Script ==
    \/ LoadJson \/ LoadInterventions \/ BuildIndex \/ CheckClipped \/ OpenOverlay
    \/ NextFeature \/ NextCandidate \/ NextPoly \/ CheckFlush \/ FinalFlush
    \/ Reload \/ ComputeArea \/ CreateCuttype \/ SaveFinal \/ ClassifyForestType
    \/ ExportMatrix \/ ExportProbabilities

\* One run of the script, which may be terminated.
OneRun == Script \/ Kill

SpecOneRun == Init /\ [][OneRun]_vars

\* Inventories of a feature that gives several fragments, a feature without
\* candidate, and a feature without geometry.
LiveFeatures ==
    { Feature(TRUE, S("VIN"), S(<<"P", "E", "P", "E">>), S("1A"),
              <<MultiPolygon(<<Unit, Below, Above>>), Polygon(Below)>>),
      Feature(TRUE, S("50"), S(<<"B", "O", "J">>), None, <<EMPTY, EMPTY>>),
      Feature(FALSE, S("30"), S(<<"E", "R">>), None, <<EMPTY, EMPTY>>) }

\* ------------------------------------------------------------ definitions
\* The run in progress (or the last one that ended) and the one before it.
ThisRun == history[Len(history)]
PrevRun == history[Len(history) - 1]

\* The script has stopped by itself: it finished or it raised.
Stopped == pc \in {"done", "crashed"}

\* The overlay phase has just ended: the loop over src is left and dst is
\* closed.
OverlayEnded == pc = "reload"

\* The records of recs that hold polygon k of the intersection of feature i
\* with intervention j.
RecordsAt(recs, i, j, k) ==
    {n \in DOMAIN recs : /\ recs[n].geometry.inv = i
                         /\ recs[n].geometry.interv = j
                         /\ recs[n].geometry.part = k}

Pairs == (1..Len(inventory)) \X (1..Len(interventions))

\* Lines 112-127: the columns of the records of the dataset, the geometry
\* and the properties of the schema given to the writer.
schema ==
    {"geometry", "EXERCICE", "ORIGINE", "AN_ORIGINE", "PERTURB", "AN_PERTURB",
     "REB_ESS1", "REB_ESS2", "REB_ESS3", "CL_AGE", "GR_ESS", "CO_TER"}

\* A record restricted to the columns of the schema: without the columns
\* added after the overlay (AREACUT line 216, CUTTYPE line 221, FOREST_TYPE
\* line 261).
OverlayColumns(r) == [c \in DOMAIN r \cap schema |-> r[c]]

\* The fragments that the loop of lines 137-192 emits on the inputs.
OverlaySet ==
    UNION {{feature_out(inventory[p[1]], p[1], p[2], poly) :
               poly \in {x \in Range(extract_polygons(inventory[p[1]].inter[p[2]])) :
                            ~skip_polygon(x)}} :
           p \in {q \in Pairs : ~skip_intersection(inventory[q[1]].inter[q[2]])}}

\* --------------------------------------------------------------------- C1
\* C1: a run that starts on the readable dataset left by a previous complete
\* run completes, and it leaves the records and the columns of the dataset
\* as they were.
C1_RerunLeavesDatasetUnchanged ==
    (/\ Len(history) > 1
     /\ PrevRun.how = "done"
     /\ ThisRun.start.state = "valid")
    => /\ pc # "crashed"
       /\ pc \in Ended => gpkg = ThisRun.start

\* --------------------------------------------------------------------- C2
\* C2: a run that starts on a readable dataset skips the overlay (no feature
\* read, no candidate visited, no fragment written) and, unless it is
\* terminated, goes on to the end, where the two matrices are written.
C2_ValidCheckpointSkipsOverlay ==
    ThisRun.start.state = "valid"
    => /\ pos = 0
       /\ accepted = <<>>
       /\ pc \notin WriterOpen
       /\ Stopped => (pc = "done" /\ matrix_csv.k = "csv" /\ prob_csv.k = "csv")

\* --------------------------------------------------------------------- C3
\* C3: a run that starts on a dataset that cannot be read deletes it and,
\* unless it is terminated, recomputes the whole overlay: it ends with a
\* readable dataset that holds the fragments of a from-scratch run.
C3_CorruptCheckpointRecomputed ==
    (ThisRun.start.state = "corrupt" /\ Stopped)
    => /\ pc = "done"
       /\ gpkg.state = "valid"
       /\ {OverlayColumns(r) : r \in Range(gpkg.records)} = OverlaySet

\* --------------------------------------------------------------------- C4
\* C4: after a run terminated while the overlay was writing, the next run
\* recomputes the whole overlay, and no run ever derives the area and cut
\* type columns from a dataset that lacks a fragment of the complete
\* overlay.
C4_PartialOutputNeverTrusted ==
    /\ (/\ Len(history) > 1
        /\ PrevRun.how = "killed"
        /\ PrevRun.at \in WriterOpen
        /\ Stopped)
       => (pc = "done" /\ pos = Len(inventory))
    /\ pc \in {"area", "cuttype", "save", "forest_type", "matrix", "probabilities"}
       => {OverlayColumns(r) : r \in Range(interv_clipped.rows)} = OverlaySet

\* --------------------------------------------------------------------- C5
\* C5: the buffer never holds more than BUFFER_SIZE records; when an append
\* has filled it, it is written to the dataset and emptied before the next
\* polygon, candidate or feature is looked at, and nothing that was appended
\* is lost on the way.
C5_BufferCapped ==
    /\ Len(buffer) <= BUFFER_SIZE
    /\ pc \in (WriterOpen \ {"check_flush"}) => Len(buffer) < BUFFER_SIZE
    /\ pc \in WriterOpen => gpkg.records \o buffer = accepted

\* The cap was reached and the buffer has just been written and emptied.
C5_Witness ==
    /\ pc = "next_poly"
    /\ buffer = <<>>
    /\ Len(gpkg.records) = BUFFER_SIZE
    /\ count = BUFFER_SIZE

\* --------------------------------------------------------------------- C6
\* C6: when the overlay phase ends, the dataset holds the accepted fragments,
\* each once, in the order in which they were accepted, so that nothing of
\* the buffer is unwritten.
C6_AllAcceptedPersistedInOrder ==
    OverlayEnded => gpkg.records = accepted

\* The phase ended after at least one write of a full buffer, with a rest
\* that only the final write has put in the dataset.
C6_Witness ==
    /\ OverlayEnded
    /\ Len(accepted) > BUFFER_SIZE
    /\ buffer # <<>>

\* --------------------------------------------------------------------- C7
\* C7: every record of the buffer and of the dataset has an area of at least
\* one square unit.
C7_NoFragmentBelowMinArea ==
    \A r \in Range(buffer) \cup Range(gpkg.records) \cup Range(accepted) :
        r.geometry.area >= 1 * UnitArea

\* A polygon of exactly one square unit is in the dataset, and a polygon
\* below one square unit of an intersection that passed the first filter has
\* been left out.
C7_Witness ==
    /\ OverlayEnded
    /\ \E r \in Range(gpkg.records) : r.geometry.area = UnitArea
    /\ \E p \in Pairs :
          LET g == inventory[p[1]].inter[p[2]] IN
          /\ g.type = "MultiPolygon"
          /\ geom_area(g) >= UnitArea
          /\ \E k \in DOMAIN g.polys :
                /\ g.polys[k] < UnitArea
                /\ RecordsAt(gpkg.records, p[1], p[2], k) = {}

\* --------------------------------------------------------------------- C8
\* C8: when the overlay phase ends, every polygon of at least one square
\* unit of the intersection of every feature with every intervention is in
\* the dataset exactly once, whether the intersection is a polygon, a
\* multi-polygon or a collection that holds polygons with lines or points.
C8_OverlayComplete ==
    OverlayEnded =>
        \A p \in Pairs :
            LET g == inventory[p[1]].inter[p[2]] IN
            \A k \in DOMAIN g.polys :
                g.polys[k] >= UnitArea
                => Cardinality(RecordsAt(gpkg.records, p[1], p[2], k)) = 1

\* --------------------------------------------------------------------- C9
\* C9: when the overlay phase ends, a polygon of a multi-polygon
\* intersection is in the dataset (once, as a record of its own) if and only
\* if its own area is at least one square unit.
C9_MultiPartExploded ==
    OverlayEnded =>
        \A p \in Pairs :
            LET g == inventory[p[1]].inter[p[2]] IN
            g.type = "MultiPolygon" =>
                \A k \in DOMAIN g.polys :
                    LET n == Cardinality(RecordsAt(gpkg.records, p[1], p[2], k)) IN
                    /\ n = (IF g.polys[k] >= UnitArea THEN 1 ELSE 0)
                    /\ \A i \in RecordsAt(gpkg.records, p[1], p[2], k) :
                          gpkg.records[i].geometry.area = g.polys[k]

\* A multi-polygon intersection of which one polygon is in the dataset, a
\* second one too, and a third, too small, is not.
C9_Witness ==
    /\ OverlayEnded
    /\ \E p \in Pairs :
          LET g == inventory[p[1]].inter[p[2]] IN
          /\ g.type = "MultiPolygon"
          /\ \E k1, k2, k3 \in DOMAIN g.polys :
                /\ k1 # k2
                /\ RecordsAt(gpkg.records, p[1], p[2], k1) # {}
                /\ RecordsAt(gpkg.records, p[1], p[2], k2) # {}
                /\ g.polys[k3] < UnitArea
                /\ RecordsAt(gpkg.records, p[1], p[2], k3) = {}

\* -------------------------------------------------------------------- C10
\* A cell and its copy in a fragment: the same string, or both missing.
Verbatim(cell, copy) ==
    IF cell.k = "str" THEN copy = cell ELSE copy = None

\* C10: every fragment carries, column by column, the cells of the
\* intervention row it was intersected with, and the age regime, shade
\* tolerance and terrain code of the feature it was cut from; fragments of
\* the same intervention carry the same intervention columns.
C10_FragmentAttributes ==
    LET recs == Range(buffer) \cup Range(gpkg.records) IN
    /\ \A r \in recs :
          /\ \A c \in InterventionColumns :
                Verbatim(interventions[r.geometry.interv][c], r[c])
          /\ r.CL_AGE = reclassify_cl_age(inventory[r.geometry.inv].CL_AGE)
          /\ r.GR_ESS = classify_shade_tolerance(inventory[r.geometry.inv].GR_ESS)
          /\ Verbatim(inventory[r.geometry.inv].CO_TER, r.CO_TER)
    /\ \A r1, r2 \in recs :
          r1.geometry.interv = r2.geometry.interv
          => \A c \in InterventionColumns : r1[c] = r2[c]

\* Two features cut by the same intervention, and a fragment of the other
\* intervention, whose row differs, in the same dataset.
C10_Witness ==
    /\ OverlayEnded
    /\ interventions[1] # interventions[2]
    /\ \E r1, r2, r3 \in Range(gpkg.records) :
          /\ r1.geometry.interv = r2.geometry.interv
          /\ r1.geometry.inv # r2.geometry.inv
          /\ r3.geometry.interv # r1.geometry.interv

\* -------------------------------------------------------------------- C11
\* C11: a feature of the inventory layer that is malformed (one without
\* geometry) does not end the run: a from-scratch run that is not terminated
\* reads every feature of the layer and goes on to its end.
C11_BadFeatureSkipped ==
    (ThisRun.start.state = "absent" /\ Stopped)
    => (pc = "done" /\ pos = Len(inventory))

\* -------------------------------------------------------------------- C12
\* A step of the overlay loop that discards the intersection of a candidate
\* (empty or below one square unit, line 157), or one of its polygons (line
\* 166), and a step that accepts a polygon.
DiscardStep ==
    \/ /\ pc = "next_candidate"
       /\ potential_idx' # potential_idx
       /\ skip_intersection(inventory[pos].inter[interv_idx'])
    \/ /\ pc = "next_poly"
       /\ polygons' # polygons
       /\ skip_polygon(Head(polygons))
AcceptStep ==
    /\ pc = "next_poly"
    /\ pc' = "check_flush"

\* C12: the counter that the overlay keeps goes up by exactly one with every
\* discarded intersection or polygon, and an accepted fragment leaves it as
\* it is.
C12_DiscardsCounted ==
    [][(DiscardStep => count' = count + 1) /\ (AcceptStep => count' = count)]_vars

\* -------------------------------------------------------------------- C13
\* The rows of the table are classified: CUTTYPE and FOREST_TYPE are set.
Classified == pc \in {"matrix", "probabilities", "done"}

\* What a cut type may be: a category of the dictionary, or a raw code.
CutTypeValues ==
    {cut_categories(c).english_category : c \in {x \in cut_categories_keys : cut_categories(x).has}}
    \cup {r.PERTURB.v : r \in {x \in Range(interventions) : notna(x.PERTURB)}}
    \cup {r.ORIGINE.v : r \in {x \in Range(interventions) : notna(x.ORIGINE)}}

\* C13: once the rows are classified, the forest type of every fragment is
\* one of the five of forest_types, and its cut type is not null: it is a
\* category of the dictionary or a raw code.
C13_ClassificationTotal ==
    Classified =>
        \A r \in Range(interv_clipped.rows) :
            /\ r.FOREST_TYPE \in Range(forest_types)
            /\ notna(r.CUTTYPE)
            /\ r.CUTTYPE.v \in CutTypeValues

\* -------------------------------------------------------------------- C14
\* The script has written its two matrices; the table interv_clipped they
\* were computed from is still there.
Exported == pc = "done"

\* Sum of a column of the probability matrix, in ten-thousandths.
RECURSIVE ProbColumnSum(_, _, _)
ProbColumnSum(cells, cuts, ft) ==
    IF cuts = {} THEN 0
    ELSE LET c == CHOOSE x \in cuts : TRUE IN
         cells[c][ft].v + ProbColumnSum(cells, cuts \ {c}, ft)

\* The column sums to 1.0, give or take half a ten-thousandth per row.
SumsToOne(ft) ==
    LET sum == ProbColumnSum(prob_csv.cells, prob_csv.index, ft) IN
    /\ 2 * (sum - 10000) <= Cardinality(prob_csv.index)
    /\ 2 * (10000 - sum) <= Cardinality(prob_csv.index)
AllZero(ft) == \A cut \in prob_csv.index : prob_csv.cells[cut][ft] = Num(0)

\* The area of the fragments of a forest type, before any row is removed.
ForestTypeArea(ft) ==
    LET of_type(r) == r.FOREST_TYPE = ft IN
    total_area(SelectSeq(interv_clipped.rows, of_type))

\* The exported percentages of a forest type over the rows that are kept.
PostFilterMass(ft) == SumCells(matrix_csv.cells, matrix_csv.index \ rows_to_remove, ft)

\* C14 as claimed: every column of the probability matrix sums to 1.0
\* within rounding, or is all-zero, and it is all-zero only if the area of
\* its forest type was zero before filtering.
C14_ColumnsSumToOneOrNoArea ==
    Exported =>
        \A ft \in Range(prob_csv.columns) :
            \/ SumsToOne(ft)
            \/ AllZero(ft) /\ ForestTypeArea(ft) = 0

\* C14 as amended: every column of the probability matrix sums to 1.0 within
\* rounding, or is all-zero, and it is all-zero exactly when the exported
\* percentages of its forest type over the rows that are kept sum to zero.
C14_ColumnsSumToOneOrNoMass ==
    Exported =>
        \A ft \in Range(prob_csv.columns) :
            IF PostFilterMass(ft) = 0 THEN AllZero(ft)
            ELSE SumsToOne(ft) /\ ~AllZero(ft)

\* A column that sums to one although part of the area of its forest type
\* lies in a removed row, and an all-zero column of a forest type whose whole
\* area lies in a removed row.
C14_Witness ==
    /\ Exported
    /\ \E ft \in Range(prob_csv.columns) :
          /\ PostFilterMass(ft) # 0
          /\ ForestTypeArea(ft) > total_area(SelectSeq(interv_clipped.rows,
                 LAMBDA r : /\ r.FOREST_TYPE = ft /\ notna(r.CUTTYPE)
                            /\ r.CUTTYPE.v \notin rows_to_remove))
          /\ SumsToOne(ft)
    /\ \E ft \in Range(prob_csv.columns) :
          /\ prob_csv.index # {}
          /\ AllZero(ft)
          /\ ForestTypeArea(ft) > 0

\* -------------------------------------------------------------------- C15
\* C15: the written probability matrix holds no NaN: every cell is a number
\* between 0 and 1, and a column whose kept rows have no mass holds zeros.
C15_NoNaNWritten ==
    prob_csv.k = "csv" =>
        \A cut \in prob_csv.index : \A ft \in Range(prob_csv.columns) :
            /\ prob_csv.cells[cut][ft].k = "num"
            /\ prob_csv.cells[cut][ft].v \in 0..10000
            /\ (SumCells(matrix_csv.cells, prob_csv.index, ft) = 0
                    => prob_csv.cells[cut][ft].v = 0)

\* A probability matrix with a row, written when every fragment lies in a
\* removed row or in the Unknown/Unclassified column: every division is 0/0.
C15_Witness ==
    /\ Exported
    /\ prob_csv.index # {}
    /\ total_area(interv_clipped.rows) > 0
    /\ \A ft \in Range(prob_csv.columns) :
          div(matrix_csv.cells[CHOOSE c \in prob_csv.index : TRUE][ft],
              SumCells(matrix_csv.cells, prob_csv.index, ft)) = NaN

\* -------------------------------------------------------------------- C16
ExpectedColumns == SubSeq(forest_types, 1, 4)

\* C16: the percentage matrix has the five forest types as columns, in the
\* fixed order, and the probability matrix the first four; a forest type
\* without any fragment has a column of zeros.
C16_FixedColumns ==
    /\ matrix_csv.k = "csv" =>
          /\ matrix_csv.columns = forest_types
          /\ \A cut \in matrix_csv.index : DOMAIN matrix_csv.cells[cut] = Range(forest_types)
    /\ prob_csv.k = "csv" =>
          /\ prob_csv.columns = ExpectedColumns
          /\ \A cut \in prob_csv.index : DOMAIN prob_csv.cells[cut] = Range(ExpectedColumns)
    /\ Exported =>
          \A ft \in Range(forest_types) :
              ForestTypeArea(ft) = 0 =>
                  /\ \A cut \in matrix_csv.index : matrix_csv.cells[cut][ft] = 0
                  /\ ft \in Range(ExpectedColumns) => AllZero(ft)

\* Both matrices written with rows although some forest type of the
\* probability matrix has no fragment and another one has.
C16_Witness ==
    /\ Exported
    /\ prob_csv.index # {}
    /\ \E ft \in Range(ExpectedColumns) : ForestTypeArea(ft) = 0
    /\ \E ft \in Range(ExpectedColumns) : ~AllZero(ft)

\* -------------------------------------------------------------------- C17
\* The summed area of the fragments of one cut type and one forest type.
PairArea(cut, ft) ==
    LET of_pair(r) == r.CUTTYPE = S(cut) /\ r.FOREST_TYPE = ft IN
    total_area(SelectSeq(interv_clipped.rows, of_pair))

\* The cut types of the fragments that are not removed from the matrix.
KeptCutTypes == matrix_index(interv_clipped.rows) \ rows_to_remove

RECURSIVE KeptArea(_, _)
KeptArea(cuts, ft) ==
    IF cuts = {} THEN 0
    ELSE LET c == CHOOSE x \in cuts : TRUE IN PairArea(c, ft) + KeptArea(cuts \ {c}, ft)

\* C17 (not met by the code, which divides the rounded percentages read back
\* from forest_cut_matrix.csv): the probability matrix has one row per cut
\* type of the fragments
\* that is not removed, and each cell is the area of its pair divided by
\* the area of its forest type over the cut types that are not removed (to
\* four decimals; zero where that area is zero).
C17_ProbabilityIsAreaRatio ==
    Exported =>
        /\ prob_csv.index = KeptCutTypes
        /\ \A cut \in prob_csv.index : \A ft \in Range(prob_csv.columns) :
              prob_csv.cells[cut][ft] =
                  IF KeptArea(KeptCutTypes, ft) = 0 THEN Num(0)
                  ELSE Num(RoundHalfEven(PairArea(cut, ft) * 10000, KeptArea(KeptCutTypes, ft)))

\* -------------------------------------------------------------------- C18
\* C18: each cell of the percentage matrix is the summed area of the
\* fragments of its cut type and forest type, divided by the total area of
\* all the fragments, times 100 and rounded to two decimals.
C18_PercentOfTotalArea ==
    Exported =>
        /\ matrix_csv.index = matrix_index(interv_clipped.rows)
        /\ \A cut \in matrix_csv.index : \A ft \in Range(matrix_csv.columns) :
              matrix_csv.cells[cut][ft] =
                  RoundHalfEven(PairArea(cut, ft) * 100 * 100, total_area(interv_clipped.rows))

\* A percentage that is not exact in two decimals, in a column where another
\* cut type has area too.
C18_Witness ==
    /\ Exported
    /\ \E cut \in matrix_csv.index : \E ft \in Range(matrix_csv.columns) :
          /\ (PairArea(cut, ft) * 100 * 100) % total_area(interv_clipped.rows) # 0
          /\ \E other \in matrix_csv.index \ {cut} : PairArea(other, ft) > 0

\* --------------------------------------------------------- the classifiers
\* The two classification steps applied to a table of one fragment whose
\* codes and classes are drawn from every kind of value a cell can hold:
\* null (None or NaN), each value the steps test for, and another value.
ClassifierAges == {None, NaN, S("Even"), S("Uneven"), S("Other")}
ClassifierTolerances == {None, NaN, S("Tol"), S("Intol"), S("Unknown"), S("Other")}
ClassifierCodes == {None, NaN, S("CT"), S("CPR"), S("P"), S("BR")}

ClassifierRow(age, ess, perturb, origine) ==
    [geometry |-> [inv |-> 1, interv |-> 1, part |-> 1, area |-> Unit],
     EXERCICE |-> None, ORIGINE |-> origine, AN_ORIGINE |-> None,
     PERTURB |-> perturb, AN_PERTURB |-> None,
     REB_ESS1 |-> None, REB_ESS2 |-> None, REB_ESS3 |-> None,
     CL_AGE |-> age, GR_ESS |-> ess, CO_TER |-> None]

\* The script is about to run step 5 on the table.
InitClassifier ==
    /\ inventory = <<>>
    /\ interventions = <<>>
    /\ matrix_csv = NoFile
    /\ prob_csv = NoFile
    /\ \E age \in ClassifierAges, ess \in ClassifierTolerances,
          perturb \in ClassifierCodes, origine \in ClassifierCodes :
          /\ gpkg = File("valid", <<ClassifierRow(age, ess, perturb, origine)>>)
          /\ interv_clipped = DF(<<SetColumn(ClassifierRow(age, ess, perturb, origine),
                                             "AREACUT", Unit)>>)
    /\ history = <<Run(File("absent", <<>>))>>
    /\ defect = "none"
    /\ pc = "cuttype"
    /\ interv_fores_gdf = "deleted"
    /\ interv_tree = "built"
    /\ pos = 0
    /\ potential_idx = {}
    /\ interv_idx = 0
    /\ polygons = <<>>
    /\ buffer = <<>>
    /\ count = 0
    /\ accepted = <<>>

NextClassifier == CreateCuttype \/ SaveFinal \/ ClassifyForestType

SpecClassifier == InitClassifier /\ [][NextClassifier]_vars

\* -------------------------------------------------------------------- C19
\* C19: the forest type is Even/Tol, Uneven/Tol, Even/Intol or Uneven/Intol
\* exactly for the matching pair of age regime and tolerance, and
\* Unknown/Unclassified for every other input; a missing or "Unknown"
\* tolerance gives Unknown/Unclassified whatever the age regime.
C19_ForestTypeTable ==
    pc = "matrix" =>
        \A r \in Range(interv_clipped.rows) :
            /\ r.FOREST_TYPE = "Even/Tol" <=> (r.CL_AGE = S("Even") /\ r.GR_ESS = S("Tol"))
            /\ r.FOREST_TYPE = "Uneven/Tol" <=> (r.CL_AGE = S("Uneven") /\ r.GR_ESS = S("Tol"))
            /\ r.FOREST_TYPE = "Even/Intol" <=> (r.CL_AGE = S("Even") /\ r.GR_ESS = S("Intol"))
            /\ r.FOREST_TYPE = "Uneven/Intol" <=> (r.CL_AGE = S("Uneven") /\ r.GR_ESS = S("Intol"))
            /\ r.FOREST_TYPE \in Range(forest_types)
            /\ (isna(r.GR_ESS) \/ r.GR_ESS = S("Unknown")) => r.FOREST_TYPE = "Unknown/Unclassified"

\* A fragment of an even-aged stand of unknown tolerance has been classified.
C19_Witness ==
    /\ pc = "matrix"
    /\ \E r \in Range(interv_clipped.rows) :
          /\ r.CL_AGE = S("Even")
          /\ r.GR_ESS = S("Unknown")
          /\ r.FOREST_TYPE = "Unknown/Unclassified"

\* -------------------------------------------------------------------- C20
HasCutType == pc \in {"save", "forest_type", "matrix"}

\* C20: the cut type is taken from the disturbance code when it is not null
\* and from the origin code otherwise; a code that is a key of the dictionary
\* with an English category becomes that category, any other code is kept as
\* it is (a null code stays null).
C20_CutTypeRule ==
    HasCutType =>
        \A r \in Range(interv_clipped.rows) :
            LET code == IF notna(r.PERTURB) THEN r.PERTURB ELSE r.ORIGINE IN
            /\ isna(code) => isna(r.CUTTYPE)
            /\ (notna(code) /\ code.v \in cut_categories_keys /\ cut_categories(code.v).has)
                  => r.CUTTYPE = S(cut_categories(code.v).english_category)
            /\ (notna(code) /\ ~(code.v \in cut_categories_keys /\ cut_categories(code.v).has))
                  => r.CUTTYPE = code

\* A fragment with both codes, whose disturbance code is a key of the
\* dictionary and whose origin code is not, has its cut type.
C20_Witness ==
    /\ HasCutType
    /\ \E r \in Range(interv_clipped.rows) :
          /\ r.PERTURB = S("CT")
          /\ r.ORIGINE = S("BR")
          /\ r.CUTTYPE = S("Commercial thinning")

\* ------------------------------------------------------- the reclassifiers
\* The overlay of one inventory feature whose age class and species group
\* are drawn from every kind of value the two reclassification functions
\* distinguish: null (None or NaN), regulated and other age classes, codes of
\* less than two characters, and prefixes that are tolerant, intolerant,
\* of another label, without label, and absent from the dictionary.
ReclassifierAges == {None, NaN, S("10"), S("140"), S("150"), S("5"), S("VIN"), S("3050")}
ReclassifierGroups == {None, NaN, S(<<>>), S(<<"E">>), S(<<"E", "R">>),
                       S(<<"E", "R", "B", "B">>), S(<<"P", "E", "P", "E">>),
                       S(<<"B", "O", "J">>), S(<<"S", "A", "B">>), S(<<"R", "E">>),
                       S(<<"Z">>)}

\* The script is about to open the inventory layer (line 104).
InitReclassifier ==
    /\ \E age \in ReclassifierAges, ess \in ReclassifierGroups :
          inventory = <<Feature(TRUE, age, ess, None, <<Polygon(Unit), EMPTY>>)>>
    /\ interventions = <<RowA, RowB>>
    /\ matrix_csv = NoFile
    /\ prob_csv = NoFile
    /\ gpkg = File("absent", <<>>)
    /\ history = <<Run(gpkg)>>
    /\ defect = "none"
    /\ pc = "open_overlay"
    /\ interv_fores_gdf = "loaded"
    /\ interv_tree = "built"
    /\ interv_clipped = None
    /\ pos = 0
    /\ potential_idx = {}
    /\ interv_idx = 0
    /\ polygons = <<>>
    /\ buffer = <<>>
    /\ count = 0
    /\ accepted = <<>>

NextReclassifier ==
    OpenOverlay \/ NextFeature \/ NextCandidate \/ NextPoly \/ CheckFlush \/ FinalFlush

SpecReclassifier == InitReclassifier /\ [][NextReclassifier]_vars

\* The feature a fragment was cut from.
Parent(r) == inventory[r.geometry.inv]

\* -------------------------------------------------------------------- C21
\* C21: the shade tolerance of a fragment is null when the species group of
\* its feature is null; otherwise it is Tol or Intol when the first two
\* characters of the group are a key of the dictionary whose entry has the
\* tolerant or the intolerant label, and Unknown in every other case.
C21_ShadeToleranceRule ==
    \A r \in Range(accepted) :
        LET code == Parent(r).GR_ESS IN
        IF isna(code) THEN r.GR_ESS = None
        ELSE LET prefix == SubSeq(code.v, 1, 2)
                 mapped(label) == /\ Len(code.v) >= 2
                                  /\ prefix \in shade_tolerance_keys
                                  /\ shade_tolerance(prefix).has
                                  /\ shade_tolerance(prefix).tolerance_ombre = label
             IN  /\ mapped("Tolerant_fr") => r.GR_ESS = S("Tol")
                 /\ mapped("Intolerant_fr") => r.GR_ESS = S("Intol")
                 /\ ~(mapped("Tolerant_fr") \/ mapped("Intolerant_fr"))
                       => r.GR_ESS = S("Unknown")

\* A fragment of a feature whose group is longer than its tolerant prefix,
\* or whose prefix is a key without a mapped label, has been buffered.
C21_Witness ==
    \E r \in Range(accepted) :
        \/ Parent(r).GR_ESS = S(<<"E", "R", "B", "B">>) /\ r.GR_ESS = S("Tol")
        \/ Parent(r).GR_ESS = S(<<"S", "A", "B">>) /\ r.GR_ESS = S("Unknown")

\* -------------------------------------------------------------------- C22
RegulatedAgeClasses == {ToString(10 * i) : i \in 1..14}

\* C22: the age regime of a fragment is Even exactly when the age class of
\* its feature is one of 10, 20, ..., 140, Uneven for every other age class
\* that is present, and null when the age class is absent.
C22_AgeRegimeRule ==
    \A r \in Range(accepted) :
        LET code == Parent(r).CL_AGE IN
        /\ r.CL_AGE = S("Even") <=> (notna(code) /\ code.v \in RegulatedAgeClasses)
        /\ r.CL_AGE = S("Uneven") <=> (notna(code) /\ code.v \notin RegulatedAgeClasses)
        /\ r.CL_AGE = None <=> isna(code)

\* A fragment of a feature of the last regulated age class has been buffered.
C22_Witness ==
    \E r \in Range(accepted) : Parent(r).CL_AGE = S("140") /\ r.CL_AGE = S("Even")

\* -------------------------------------------------------------------- C23
AfterOverlay == {"area", "cuttype", "save", "forest_type", "matrix", "probabilities"}

\* C23 (not met by the code, which saves the table over the dataset at line
\* 239): once the overlay has written the dataset, no later step of the run
\* changes the file.
C23_PersistedImmutable ==
    [][(pc \in AfterOverlay) => (gpkg' = gpkg)]_vars

\* -------------------------------------------------------------------- C24
\* Runs on files of which one may be defective, and on a dataset that may
\* already be there.
Defects == {"none", "lookup_missing", "layer_unreadable"}
InitDefect ==
    /\ inventory \in [1..MaxInv -> LiveFeatures]
    /\ interventions = <<RowA, RowB>>
    /\ gpkg \in {File("absent", <<>>), File("valid", <<>>), File("corrupt", <<>>)}
    /\ matrix_csv = NoFile
    /\ prob_csv = NoFile
    /\ history = <<Run(gpkg)>>
    /\ defect \in Defects
    /\ Fresh

SpecDefect == InitDefect /\ [][Next]_vars

\* C24: when a lookup file is missing or the intervention layer cannot be
\* read, the script never gets to the overlay: the index is not built, no
\* feature is read, nothing is buffered, the dataset is the one the first run
\* found, and a run that stops by itself has raised.
C24_DefectIsFatalBeforeOverlay ==
    defect # "none" =>
        /\ interv_tree = "undefined"
        /\ pos = 0
        /\ accepted = <<>>
        /\ buffer = <<>>
        /\ gpkg = history[1].start
        /\ pc \in {"load_json", "load_interv", "build_index", "crashed", "killed"}
        /\ Stopped => pc = "crashed"

\* The script has raised on the missing lookup file although a feature of the
\* inventory intersects an intervention.
C24_Witness ==
    /\ defect = "lookup_missing"
    /\ pc = "crashed"
    /\ ThisRun.at = "load_json"
    /\ \E i \in DOMAIN inventory : inventory[i].has_geometry /\ query(inventory[i]) # {}

\* -------------------------------------------------------------------- C25
\* A step that builds the index, and a step that queries it for a feature.
BuildStep == interv_tree # "built" /\ interv_tree' = "built"
QueryStep == pc = "next_feature" /\ pos' = pos + 1 /\ pc' # "crashed"

\* C25: in a run the index is built once, from the loaded intervention table
\* and before any feature is read; from then to the end of the overlay it
\* stays as built over a table that is neither changed nor released, and
\* each query returns every intervention that intersects the feature.
C25_IndexBuiltOnceBeforeQueries ==
    [][/\ BuildStep => (/\ interv_tree = "undefined"
                        /\ interv_fores_gdf = "loaded"
                        /\ pos = 0)
       /\ QueryStep => (/\ interv_tree = "built"
                        /\ interv_fores_gdf = "loaded"
                        /\ potential_idx' = {j \in DOMAIN interventions :
                                                ~is_empty(inventory[pos'].inter[j])})
       /\ (interv_tree = "built" /\ pc' \in WriterOpen)
              => (/\ interv_tree' = "built"
                  /\ interv_fores_gdf' = "loaded"
                  /\ interventions' = interventions)]_vars

\* The last feature has been queried and it intersects the second
\* intervention of the table.
C25_Witness ==
    /\ pc = "next_candidate"
    /\ pos = Len(inventory)
    /\ interv_tree = "built"
    /\ 2 \in potential_idx

\* -------------------------------------------------------------------- C26
\* C26 (not met by the code, which builds the index from a table it has not
\* loaded when the dataset exists): the intervention table is loaded, and
\* not released, wherever it is used: at the build of the index, at the
\* lookup of a candidate's row, and at each of its two releases.
C26_TableBoundWhereUsed ==
    /\ pc = "build_index" => interv_fores_gdf = "loaded"
    /\ (pc = "check_clipped" /\ gpkg.state # "absent") => interv_fores_gdf = "loaded"
    /\ pc = "next_candidate" => interv_fores_gdf = "loaded"
    /\ pc = "reload" => interv_fores_gdf = "loaded"

\* -------------------------------------------------------------------- C27
\* A write of the buffer that is not the final one.
FlushStep == pc = "check_flush" /\ pc' = "next_poly" /\ gpkg' # gpkg

\* C27: while the overlay runs, count is the number of records written plus
\* the number of records in the buffer; a write that is not the final one
\* writes BUFFER_SIZE records; when the overlay has ended, count is the
\* number of records of the dataset.
C27_CountIsWrittenPlusBuffered ==
    /\ [](pc \in WriterOpen => count = Len(gpkg.records) + Len(buffer))
    /\ [](OverlayEnded => count = Len(gpkg.records))
    /\ [][FlushStep => Len(gpkg'.records) = Len(gpkg.records) + BUFFER_SIZE]_vars

\* A full buffer has been written and the buffer holds a record again.
C27_Witness ==
    /\ pc \in WriterOpen
    /\ Len(gpkg.records) = BUFFER_SIZE
    /\ buffer # <<>>
    /\ count = BUFFER_SIZE + Len(buffer)

\* -------------------------------------------------------------------- C28
\* The sum of the cells of the area matrix, and of the percentage matrix.
MatrixAreaSum ==
    SumSeq([i \in DOMAIN forest_types |-> KeptArea(matrix_csv.index, forest_types[i])])
MatrixPercentSum ==
    SumSeq([i \in DOMAIN matrix_csv.columns |->
               SumCells(matrix_csv.cells, matrix_csv.index, matrix_csv.columns[i])])

\* C28 (not met by the code, which leaves the fragments without cut type out
\* of the matrix but not out of the total): the cells of the area matrix sum
\* to the total area of the fragments, and the percentages sum to 100, give
\* or take half a hundredth per cell.
C28_MatrixCoversTotalArea ==
    (Exported /\ total_area(interv_clipped.rows) > 0) =>
        /\ MatrixAreaSum = total_area(interv_clipped.rows)
        /\ 2 * (10000 - MatrixPercentSum)
              <= Cardinality(matrix_csv.index) * Len(matrix_csv.columns)
        /\ 2 * (MatrixPercentSum - 10000)
              <= Cardinality(matrix_csv.index) * Len(matrix_csv.columns)

\* -------------------------------------------------------------------- C29
\* The run found the dataset as a previous run saved it at line 239, with the
\* columns AREACUT and CUTTYPE.
StartedOnSavedDataset ==
    /\ ThisRun.start.state = "valid"
    /\ ThisRun.start.records # <<>>
    /\ \A r \in Range(ThisRun.start.records) : {"AREACUT", "CUTTYPE"} \subseteq DOMAIN r

\* C29 (not met by the code, which raises at line 43 in every run that finds
\* the dataset): a run on a dataset that carries AREACUT and CUTTYPE derives
\* the two columns again with the values they had, and writes the two
\* matrices that they give.
C29_AggregationIdempotent ==
    (StartedOnSavedDataset /\ Stopped) =>
        /\ Exported
        /\ Len(interv_clipped.rows) = Len(ThisRun.start.records)
        /\ \A i \in DOMAIN interv_clipped.rows :
              /\ interv_clipped.rows[i].AREACUT = ThisRun.start.records[i].AREACUT
              /\ interv_clipped.rows[i].CUTTYPE = ThisRun.start.records[i].CUTTYPE
        /\ matrix_csv = matrix_pct(interv_clipped.rows)
        /\ prob_csv = matrix_prob(matrix_csv, total_area(interv_clipped.rows))

\* -------------------------------------------------------------------- C30
InitLive ==
    /\ inventory \in [1..MaxInv -> LiveFeatures]
    /\ interventions = <<RowA, RowB>>
    /\ gpkg = File("absent", <<>>)
    /\ matrix_csv = NoFile
    /\ prob_csv = NoFile
    /\ history = <<Run(gpkg)>>
    /\ defect = "none"
    /\ Fresh

SpecLive == InitLive /\ [][Next]_vars /\ WF_vars(Script)

\* A run that found no dataset, on an inventory whose features all have a
\* geometry.
FromScratch == ThisRun.start.state = "absent" /\ pc \notin Ended
WellFormed == \A i \in DOMAIN inventory : inventory[i].has_geometry

\* C30: in a from-scratch run over well-formed features, the features are
\* read one by one in stream order, each when the one before is finished; a
\* feature without candidate leaves buffer, count and dataset as they are;
\* the overlay ends when every feature has been read; and the run, unless
\* it is terminated, ends with the two matrices written.
C30_FromScratchRunCompletes ==
    /\ [][(FromScratch /\ WellFormed) =>
            /\ pos' # pos => (/\ pos' = pos + 1
                              /\ pc = "next_feature"
                              /\ potential_idx = {}
                              /\ polygons = <<>>)
            /\ (QueryStep /\ query(inventory[pos']) = {}) =>
                  (/\ pc' = "next_feature"
                   /\ buffer' = buffer /\ count' = count /\ gpkg' = gpkg)]_vars
    /\ []((FromScratch /\ WellFormed /\ OverlayEnded) => pos = Len(inventory))
    /\ ((FromScratch /\ WellFormed /\ pc = "load_json")
           ~> (\/ pc = "killed"
               \/ pc = "done" /\ matrix_csv.k = "csv" /\ prob_csv.k = "csv"))

====
